---- MODULE Spec2Model ----
(***************************************************************************)
(* State-machine model of WK16-final_script.py: a single-pass web scraper  *)
(* (startup NLTK data check, scrape_website, download_images,              *)
(* process_text_with_nltk, generate_report, main).                         *)
(*                                                                         *)
(* Text is a sequence of symbols.  A symbol stands for a fixed run of      *)
(* characters: page text uses one symbol per character, URLs and report    *)
(* labels use longer runs ("http", "casl.website", "Image saved: ").  No   *)
(* symbol other than "/" contains a slash, no symbol other than "http"     *)
(* contains the characters h-t-t-p, and "\n" is the only symbol holding a  *)
(* line break, so startswith, substring, basename and line splitting on    *)
(* symbols agree with the same operations on characters.                   *)
(*                                                                         *)
(* A Python set is a sequence without duplicates: its elements in the      *)
(* iteration order the interpreter gives the set, chosen when the set is   *)
(* built and the same for every later iteration of the unmodified set.     *)
(***************************************************************************)
EXTENDS Integers, Sequences, FiniteSets, TLC

\* ---------------------------------------------------------------- bounds
MaxImages == 3
MaxAnchors == 3
MaxNodes == 2
MaxMembers == 3

\* ------------------------------------------------------- generic helpers
Range(s) == {s[i] : i \in 1..Len(s)}

NoDup(s) == \A i, j \in 1..Len(s) : i # j => s[i] # s[j]

\* every iteration order of a set
Orders(S) == {s \in [1..Cardinality(S) -> S] : NoDup(s)}

\* str.startswith
StartsWith(s, p) == Len(s) >= Len(p) /\ SubSeq(s, 1, Len(p)) = p

\* the `in` operator on two strings
Contains(s, p) == \E i \in 1..(Len(s) - Len(p) + 1) : SubSeq(s, i, i + Len(p) - 1) = p

\* sep.join(items)
RECURSIVE Join(_, _)
Join(items, sep) ==
    IF items = <<>> THEN <<>>
    ELSE IF Len(items) = 1 THEN items[1]
    ELSE items[1] \o sep \o Join(Tail(items), sep)

\* str(n) for a natural number
RECURSIVE Str(_)
Str(n) ==
    LET digit == <<"0", "1", "2", "3", "4", "5", "6", "7", "8", "9">>
    IN  IF n < 10 THEN <<digit[n + 1]>> ELSE Str(n \div 10) \o <<digit[(n % 10) + 1]>>

\* text.split("\n"): the runs between line breaks, by halving the text
RECURSIVE SplitNl(_)
SplitNl(t) ==
    IF Len(t) = 0 THEN <<<<>>>>
    ELSE IF Len(t) = 1 THEN (IF t[1] = "\n" THEN <<<<>>, <<>>>> ELSE <<t>>)
    ELSE LET m == Len(t) \div 2
             a == SplitNl(SubSeq(t, 1, m))
             b == SplitNl(SubSeq(t, m + 1, Len(t)))
         IN  SubSeq(a, 1, Len(a) - 1) \o <<a[Len(a)] \o b[1]>> \o Tail(b)

\* the lines of a text (a text ending in a line break has no further, empty,
\* line after it)
Lines(t) ==
    LET runs == SplitNl(t)
    IN  IF runs[Len(runs)] = <<>> THEN SubSeq(runs, 1, Len(runs) - 1) ELSE runs

\* ------------------------------------------------------------- constants
URL == <<"http", "s", ":", "/", "/", "casl.website">>
IMAGE_DIR == <<"images">>

LowerLetters == {"a", "c", "d", "e", "f", "h", "i", "j", "k", "m", "n", "o", "p", "q", "s", "t", "u", "x"}
UpperLetters == {"E", "F", "H", "T"}
DigitChars == {"0", "1", "2", "3", "4", "5", "6", "7", "8", "9"}

\* str.lower on one character
LowerChar(c) ==
    CASE c = "E" -> "e" [] c = "F" -> "f" [] c = "H" -> "h" [] c = "T" -> "t" [] OTHER -> c

\* str.lower
Lower(w) == [i \in 1..Len(w) |-> LowerChar(w[i])]

\* str.isalpha: non-empty and every character a letter
IsAlpha(w) == Len(w) > 0 /\ \A i \in 1..Len(w) : w[i] \in LowerLetters \cup UpperLetters

\* stopwords.words('english'), the entries this model's texts can meet
STOPWORDS == {<<"t", "h", "e">>, <<"a", "n", "d">>}

\* ----------------------------------------------------- scrape_website
\* lines 74-75: a href that does not start with 'http' gets URL prepended
ResolveHref(href) == IF ~StartsWith(href, <<"http">>) THEN URL \o href ELSE href

\* line 76: the link is kept when URL occurs in it
KeepHref(href) == Contains(href, URL)

\* lines 72-77: the set page_links holds after the anchor loop
PageLinkSet(hrefs) == {ResolveHref(h) : h \in {a \in hrefs : KeepHref(ResolveHref(a))}}

\* lines 83-84
ResolveSrc(src) == IF ~StartsWith(src, <<"http">>) THEN URL \o src ELSE src

\* lines 80-85: the set image_links holds after the image loop
ImageLinkSet(srcs) == {ResolveSrc(s) : s \in srcs}

\* line 88: soup.get_text(separator=' ', strip=True)
GetText(nodes) == Join(nodes, <<" ">>)

\* regular-expression classes \d, \w and the word boundary \b before index i
IsDigitAt(t, i) == i >= 1 /\ i <= Len(t) /\ t[i] \in DigitChars

IsWordAt(t, i) ==
    i >= 1 /\ i <= Len(t) /\ t[i] \in LowerLetters \cup UpperLetters \cup DigitChars \cup {"_"}

DigitsAt(t, i, n) == \A k \in i..(i + n - 1) : IsDigitAt(t, k)

WordBoundary(t, i) == IsWordAt(t, i - 1) # IsWordAt(t, i)

\* x? for a single character x, greedy: the index after it
Opt(t, i, c) == IF i <= Len(t) /\ t[i] = c THEN i + 1 ELSE i

\* ' *', greedy: the index after the run of spaces at i
RECURSIVE SkipSpaces(_, _)
SkipSpaces(t, i) == IF i <= Len(t) /\ t[i] = " " THEN SkipSpaces(t, i + 1) ELSE i

\* PHONE_PATTERN (line 35) matched at index i: the index of the match's last
\* character, 0 when there is no match.  No optional part of the pattern can
\* be given up for a later part to match, so the greedy walk is the match.
PhoneEnd(t, i) ==
    LET a == Opt(t, i, "(")
    IN  IF ~DigitsAt(t, a, 3) THEN 0
        ELSE LET b == SkipSpaces(t, Opt(t, Opt(t, a + 3, ")"), "-"))
             IN  IF ~DigitsAt(t, b, 3) THEN 0
                 ELSE LET c == Opt(t, SkipSpaces(t, Opt(t, b + 3, "-")), "-")
                      IN  IF DigitsAt(t, c, 4) THEN c + 3 ELSE 0

\* ZIPCODE_PATTERN (line 34) matched at index i, likewise
ZipEnd(t, i) ==
    IF ~(WordBoundary(t, i) /\ DigitsAt(t, i, 5)) THEN 0
    ELSE IF i + 5 <= Len(t) /\ t[i + 5] = "-" /\ DigitsAt(t, i + 6, 4) /\ WordBoundary(t, i + 10)
         THEN i + 9
    ELSE IF WordBoundary(t, i + 5) THEN i + 4
    ELSE 0

\* re.findall: leftmost matches, scanning on after each one
RECURSIVE FindPhones(_, _)
FindPhones(t, i) ==
    IF i > Len(t) THEN {}
    ELSE IF PhoneEnd(t, i) > 0
         THEN {SubSeq(t, i, PhoneEnd(t, i))} \cup FindPhones(t, PhoneEnd(t, i) + 1)
    ELSE FindPhones(t, i + 1)

RECURSIVE FindZips(_, _)
FindZips(t, i) ==
    IF i > Len(t) THEN {}
    ELSE IF ZipEnd(t, i) > 0
         THEN {SubSeq(t, i, ZipEnd(t, i))} \cup FindZips(t, ZipEnd(t, i) + 1)
    ELSE FindZips(t, i + 1)

\* ------------------------------------------------ process_text_with_nltk
\* wordpunct_tokenize: the pattern \w+|[^\w\s]+, so maximal runs of word
\* characters and maximal runs of characters that are neither word nor space
CharClass(t, i) == IF t[i] = " " THEN "space" ELSE IF IsWordAt(t, i) THEN "word" ELSE "punct"

RunEnd(t, i) ==
    CHOOSE e \in i..Len(t) :
        /\ \A k \in i..e : CharClass(t, k) = CharClass(t, i)
        /\ (e = Len(t) \/ CharClass(t, e + 1) # CharClass(t, i))

RECURSIVE TokenizeFrom(_, _)
TokenizeFrom(t, i) ==
    IF i > Len(t) THEN <<>>
    ELSE IF CharClass(t, i) = "space" THEN TokenizeFrom(t, i + 1)
    ELSE <<SubSeq(t, i, RunEnd(t, i))>> \o TokenizeFrom(t, RunEnd(t, i) + 1)

wordpunct_tokenize(text) == TokenizeFrom(text, 1)

\* line 131: the test of the list comprehension
KeepToken_NoLower(word) == IsAlpha(word) /\ word \notin STOPWORDS

KeepToken(word) == IsAlpha(word) /\ Lower(word) \notin STOPWORDS

\* line 131: filtered_tokens
RECURSIVE FilterTokens(_)
FilterTokens(toks) ==
    IF toks = <<>> THEN <<>>
    ELSE IF KeepToken(Head(toks)) THEN <<Head(toks)>> \o FilterTokens(Tail(toks))
    ELSE FilterTokens(Tail(toks))

\* the tags pos_tag can give a token (of the Penn Treebank set: two noun
\* tags, two verb tags, one that is neither)
TAGS == {"NN", "NNS", "VB", "VBD", "JJ"}

TagStartsWith(tag, p) == tag \in (IF p = "NN" THEN {"NN", "NNS"} ELSE {"VB", "VBD"})

\* lines 136-137
WordsTagged(filtered, tags, p) == {filtered[i] : i \in {k \in 1..Len(filtered) : TagStartsWith(tags[k], p)}}

\* -------------------------------------------------------- download_images
\* os.path.basename: what follows the last slash
BaseName(u) ==
    LET slashes == {i \in 1..Len(u) : u[i] = "/"}
        last == IF slashes = {} THEN 0 ELSE CHOOSE i \in slashes : \A j \in slashes : j <= i
    IN  SubSeq(u, last + 1, Len(u))

\* lines 106-107: os.path.join(IMAGE_DIR, os.path.basename(image_url))
ImagePath(u) == IMAGE_DIR \o <<"/">> \o BaseName(u)

\* what a file on disk holds: nothing (just truncated), a part or the whole
\* of the bytes served for URL `of`
EmptyFile == [kind |-> "empty", of |-> <<>>]
PartOf(u) == [kind |-> "part", of |-> u]
WholeOf(u) == [kind |-> "whole", of |-> u]

\* line 110 and line 112: the text print is given
SavedLine(path) == <<"Image saved: ">> \o path

ErrorLine(u) == <<"Error downloading image ">> \o u \o <<": ", "<exception>">>

\* print(x): x and a line break
PrintOut(x) == x \o <<"\n">>

\* ------------------------------------------------------- generate_report
\* lines 164-166 (first = TRUE) and 170-172, ..., 200-202: what one section
\* writes to the report file; s is the set, in iteration order
FileSection_OneBreak(label, s, first) ==
    (IF first THEN <<>> ELSE <<"\n">>) \o <<label>> \o Str(Len(s)) \o <<"):", "\n">>
        \o Join(s, <<", ">>) \o <<"\n">>

FileSection_JoinComma(label, s, first) ==
    (IF first THEN <<>> ELSE <<"\n">>) \o <<label>> \o Str(Len(s)) \o <<"):", "\n">>
        \o Join(s, <<",">>) \o <<"\n", "\n">>

FileSection(label, s, first) ==
    (IF first THEN <<>> ELSE <<"\n">>) \o <<label>> \o Str(Len(s)) \o <<"):", "\n">>
        \o Join(s, <<", ">>) \o <<"\n", "\n">>

\* lines 165+167 and 171+173, ..., 201+203: what one section prints
PrintSection(label, s, first) ==
    PrintOut((IF first THEN <<>> ELSE <<"\n">>) \o <<label>> \o Str(Len(s)) \o <<"):">>)
        \o PrintOut(Join(s, <<", ">>))

SectionLabels ==
    << "Unique URLs Found (", "Unique Image URLs Found (", "Phone Numbers Found (",
       "Zip Codes Found (", "Unique Vocabulary Found (", "Nouns Found (", "Verbs Found (" >>

\* lines 160-202: the text written to the report file; sets is the seven
\* arguments of generate_report in order
RECURSIVE FileSections(_, _)
FileSections(sets, k) ==
    IF k > Len(sets) THEN <<>>
    ELSE FileSection(SectionLabels[k], sets[k], k = 1) \o FileSections(sets, k + 1)

FileText(sets) == <<"Target Website: ">> \o URL \o <<"\n", "\n">> \o FileSections(sets, 1)

\* lines 161-203: the text printed while the report file is open
RECURSIVE PrintSections(_, _)
PrintSections(sets, k) ==
    IF k > Len(sets) THEN <<>>
    ELSE PrintSection(SectionLabels[k], sets[k], k = 1) \o PrintSections(sets, k + 1)

PrintedText(sets) == PrintOut(<<"Target Website: ">> \o URL \o <<"\n">>) \o PrintSections(sets, 1)

\* line 156: report_<timestamp>.txt
ReportName == <<"report_", "<timestamp>", ".txt">>

\* ------------------------------------------------------- the input pages
\* href values of anchor elements
HrefAbout == <<"/", "about">>
HrefAboutAbs == URL \o <<"/", "about">>
HrefOther == <<"http", "s", ":", "/", "/", "evil.example", "/">>
HrefOtherQuery == <<"http", "s", ":", "/", "/", "evil.example", "/", "?", "next=">> \o URL
HrefMailto == <<"mailto:", "a@b">>
HrefPlainHttp == <<"http", ":", "/", "/", "casl.website", "/", "contact">>
HrefNoSlash == <<"contact.html">>

Hrefs == {HrefAbout, HrefAboutAbs, HrefOther, HrefOtherQuery, HrefMailto, HrefPlainHttp, HrefNoSlash}

\* src values of image elements: two with the same basename, one on another
\* host, one whose path ends in a slash
SrcAX == <<"/", "a", "/", "x.png">>
SrcBX == <<"/", "b", "/", "x.png">>
SrcCdnY == <<"http", "s", ":", "/", "/", "cdn.example", "/", "y.png">>
SrcDir == <<"/", "img", "/">>

Srcs == {SrcAX, SrcBX, SrcCdnY, SrcDir}

\* text nodes of the page, one symbol per character
NodeThe == <<"t", "h", "e">>
NodeTheCap == <<"T", "h", "e">>
NodeTheUpper == <<"T", "H", "E">>
NodeQuick == <<"q", "u", "i", "c", "k">>
NodeFox == <<"F", "o", "x">>
NodeJumps == <<"j", "u", "m", "p", "s", ",">>
NodeX2 == <<"x", "2">>
NodeZip == <<"9", "0", "2", "1", "0">>

TextNodes == {NodeThe, NodeTheCap, NodeTheUpper, NodeQuick, NodeFox, NodeJumps, NodeX2, NodeZip}

\* sequences over S of length at most n
SeqsUpTo(S, n) == UNION {[1..k -> S] : k \in 0..n}

\* the NLTK data packages
BUNDLES == {"punkt", "stopwords", "averaged_perceptron_tagger"}

\* the components, in the order of the system overview
COMPONENTS == <<"Fetcher", "Extractor", "Image Downloader", "Text Analyzer", "Report Writer">>

\* ------------------------------------------------------------------ state
VARIABLES
    bundles,        \* NLTK data packages installed
    dir_exists,     \* whether the directory IMAGE_DIR exists
    hrefs,          \* the served page: href values of its anchors
    srcs,           \* the served page: src values of its images
    nodes,          \* the served page: its text nodes, in document order
    pc,             \* the line the interpreter is at
    exc,            \* the uncaught exception that ended the run, or "none"
    started,        \* components started so far, in order
    finished,       \* components finished so far, in order
    used,           \* NLTK data packages loaded so far
    status,         \* HTTP status of the primary response (0: none yet)
    page_links, image_links, text_content, phone_numbers, zip_codes,
    idx,            \* download_images: position of image_url in image_links
    img_requests,   \* URLs requested by download_images, in order
    opened,         \* URLs whose image file open() returned, in order
    written,        \* URLs whose img_file.write() returned, in order
    handles,        \* paths of the files now open
    files,          \* the image files on disk: path -> content
    stdout,         \* standard output
    unique_vocab, nouns, verbs,
    report_exists,  \* whether the report file exists
    report_file,    \* the text of the report file
    report_printed  \* what was printed while the report file was open

world == <<bundles, dir_exists, hrefs, srcs, nodes>>
control == <<pc, exc, started, finished, used>>
scraped == <<status, page_links, image_links, text_content, phone_numbers, zip_codes>>
download == <<idx, img_requests, opened, written, handles, files>>
analysed == <<unique_vocab, nouns, verbs>>
report == <<report_exists, report_file, report_printed>>
vars == <<world, control, scraped, download, stdout, analysed, report>>

\* nothing scraped, downloaded, analysed or reported yet
Fresh ==
    /\ exc = "none" /\ started = <<>> /\ finished = <<>> /\ used = {}
    /\ status = 0
    /\ page_links = <<>> /\ image_links = <<>> /\ text_content = <<>>
    /\ phone_numbers = <<>> /\ zip_codes = <<>>
    /\ idx = 0 /\ img_requests = <<>> /\ opened = <<>> /\ written = <<>> /\ handles = {}
    /\ files = [p \in {} |-> EmptyFile]
    /\ stdout = <<>>
    /\ unique_vocab = <<>> /\ nouns = <<>> /\ verbs = <<>>
    /\ report_exists = FALSE /\ report_file = <<>> /\ report_printed = <<>>

\* the interpreter starts the script: any installed data, any page images
Init ==
    /\ bundles \in SUBSET BUNDLES
    /\ dir_exists \in BOOLEAN
    /\ hrefs = {HrefAbout}
    /\ srcs \in {S \in SUBSET Srcs : Cardinality(S) <= MaxImages}
    /\ nodes = <<NodeFox, NodeZip>>
    /\ pc = "L21"
    /\ Fresh

\* ---------------------------------------------------------------- startup
\* line 26: what the except branch downloads
StartupDownloads == {"punkt", "stopwords"}

\* lines 21-26: both finds in one try; a LookupError downloads both
CheckNltkData ==
    /\ pc = "L21"
    /\ bundles' = IF {"punkt", "stopwords"} \subseteq bundles THEN bundles
                  ELSE bundles \cup StartupDownloads
    /\ pc' = "L31"
    /\ UNCHANGED <<dir_exists, hrefs, srcs, nodes, exc, started, finished, used,
                   scraped, download, stdout, analysed, report>>

\* line 31: stopwords.words('english') loads the stopwords corpus
LoadStopwords ==
    /\ pc = "L31"
    /\ IF "stopwords" \in bundles
       THEN used' = used \cup {"stopwords"} /\ pc' = "L38" /\ exc' = exc
       ELSE used' = used /\ pc' = "exited" /\ exc' = "LookupError"
    /\ UNCHANGED <<world, started, finished, scraped, download, stdout, analysed, report>>

\* lines 38-39
MakeImageDir ==
    /\ pc = "L38"
    /\ dir_exists' = TRUE
    /\ pc' = "L210"
    /\ UNCHANGED <<bundles, hrefs, srcs, nodes, exc, started, finished, used,
                   scraped, download, stdout, analysed, report>>

\* ------------------------------------------------------------------- main
\* lines 210-224: the statements of main in order; each prints and calls
MainLines == <<"L210", "L213", "L216", "L221", "L224">>

\* the line of main after line l
NextMainLine(l) == MainLines[(CHOOSE i \in 1..Len(MainLines) : MainLines[i] = l) + 1]

\* what main's line l prints, the line it calls and the component that starts
MainCall_DownloadLast(l) ==
    CASE l = "L210" -> [out |-> <<"Target website: ">> \o URL, to |-> "L68", comp |-> "Fetcher"]
      [] l = "L213" -> [out |-> <<"\n", "Processing text with NLTK...">>, to |-> "L130",
                        comp |-> "Text Analyzer"]
      [] l = "L216" -> [out |-> <<"\n", "Generating report...">>, to |-> "L155",
                        comp |-> "Report Writer"]
      [] l = "L221" -> [out |-> <<"\n", "Downloading images...">>, to |-> "L103",
                        comp |-> "Image Downloader"]

MainCall(l) ==
    CASE l = "L210" -> [out |-> <<"Target website: ">> \o URL, to |-> "L68", comp |-> "Fetcher"]
      [] l = "L213" -> [out |-> <<"\n", "Downloading images...">>, to |-> "L103",
                        comp |-> "Image Downloader"]
      [] l = "L216" -> [out |-> <<"\n", "Processing text with NLTK...">>, to |-> "L130",
                        comp |-> "Text Analyzer"]
      [] l = "L221" -> [out |-> <<"\n", "Generating report...">>, to |-> "L155",
                        comp |-> "Report Writer"]

\* lines 210-211, 213-214, 216-218, 221-222: print, then call
MainStep ==
    /\ pc \in {"L210", "L213", "L216", "L221"}
    /\ stdout' = stdout \o PrintOut(MainCall(pc).out)
    /\ started' = Append(started, MainCall(pc).comp)
    /\ pc' = MainCall(pc).to
    /\ idx' = (IF MainCall(pc).to = "L103" THEN 0 ELSE idx)
    /\ UNCHANGED <<world, exc, finished, used, scraped, img_requests, opened, written, handles, files,
                   analysed, report>>

\* line 224, and the return of main
MainCompleted ==
    /\ pc = "L224"
    /\ stdout' = stdout \o PrintOut(<<"\n", "Completed">>)
    /\ pc' = "exited"
    /\ UNCHANGED <<world, exc, started, finished, used, scraped, download, analysed, report>>

\* --------------------------------------------------------- scrape_website
\* what requests.get(url) can do: return a 2xx response, return a response
\* with another status, or raise (ConnectionError, Timeout, ...)
FETCH_OUTCOMES == {"ok", "non2xx", "raise"}

\* line 68: where the run goes when requests.get raises: nothing in
\* scrape_website or main catches it
AfterFetchRaise_Caught == "L69"

AfterFetchRaise == "exited"

\* line 68: the one unguarded request; the status of a response is not looked at
Fetch ==
    /\ pc = "L68"
    /\ \E outcome \in FETCH_OUTCOMES :
         IF outcome = "raise"
         THEN /\ exc' = "ConnectionError"
              /\ pc' = AfterFetchRaise
              /\ UNCHANGED <<status, started, finished>>
         ELSE /\ status' = (IF outcome = "ok" THEN 200 ELSE 404)
              /\ pc' = "L69"
              /\ finished' = Append(finished, "Fetcher")
              /\ started' = Append(started, "Extractor")
              /\ exc' = exc
    /\ UNCHANGED <<world, used, page_links, image_links, text_content, phone_numbers, zip_codes,
                   download, stdout, analysed, report>>

\* lines 69-94: parse the body whatever its status, collect the five results
Extract ==
    /\ pc = "L69"
    /\ page_links' \in Orders(PageLinkSet(hrefs))
    /\ image_links' \in Orders(ImageLinkSet(srcs))
    /\ text_content' = GetText(nodes)
    /\ phone_numbers' \in Orders(FindPhones(text_content', 1))
    /\ zip_codes' \in Orders(FindZips(text_content', 1))
    /\ finished' = Append(finished, "Extractor")
    /\ pc' = NextMainLine("L210")
    /\ UNCHANGED <<world, exc, started, used, status, download, stdout, analysed, report>>

\* -------------------------------------------------------- download_images
\* the URL the loop variable image_url holds
image_url == image_links[idx]

\* line 103: the next URL of the set, or the end of the loop and the return
DlFor ==
    /\ pc = "L103"
    /\ IF idx < Len(image_links)
       THEN idx' = idx + 1 /\ pc' = "L105" /\ finished' = finished
       ELSE idx' = idx /\ pc' = NextMainLine("L213")
            /\ finished' = Append(finished, "Image Downloader")
    /\ UNCHANGED <<world, exc, started, used, scraped, img_requests, opened, written, handles, files,
                   stdout, analysed, report>>

\* line 105: one request; it returns a response (of any status) or raises
DlGet ==
    /\ pc = "L105"
    /\ img_requests' = Append(img_requests, image_url)
    /\ \E raised \in BOOLEAN : pc' = (IF raised THEN "L112" ELSE "L108")
    /\ UNCHANGED <<world, exc, started, finished, used, scraped, idx, opened, written, handles, files,
                   stdout, analysed, report>>

\* line 108: what the file at path p holds once open(p, 'wb') has returned:
\* mode 'w' truncates
AtOpen_Append(fs, p) == IF p \in DOMAIN fs THEN fs[p] ELSE EmptyFile

AtOpen(fs, p) == EmptyFile

\* lines 106-108: open(image_path, 'wb') creates or truncates the file and
\* returns the handle, or raises (always for a path that names a directory)
DlOpen ==
    /\ pc = "L108"
    /\ \E raised \in BOOLEAN :
         IF raised \/ BaseName(image_url) = <<>> \/ ~dir_exists
         THEN pc' = "L112" /\ UNCHANGED <<opened, handles, files>>
         ELSE /\ pc' = "L109"
              /\ opened' = Append(opened, image_url)
              /\ handles' = handles \cup {ImagePath(image_url)}
              /\ files' = [p \in DOMAIN files \cup {ImagePath(image_url)} |->
                              IF p = ImagePath(image_url) THEN AtOpen(files, p) ELSE files[p]]
    /\ UNCHANGED <<world, exc, started, finished, used, scraped, idx, img_requests, written,
                   stdout, analysed, report>>

\* line 109: what the file holds after write() has added the bytes served
\* for u to what it held
Written(old, u) == IF old = EmptyFile THEN WholeOf(u) ELSE [kind |-> "mixed", of |-> u]

\* line 109: the write; when it raises, the with statement closes the handle
\* and the file keeps what had reached it, nothing or a part
DlWrite ==
    /\ pc = "L109"
    /\ \E raised \in BOOLEAN :
         IF raised
         THEN /\ \E left \in {EmptyFile, PartOf(image_url)} :
                   files' = [files EXCEPT ![ImagePath(image_url)] = left]
              /\ handles' = handles \ {ImagePath(image_url)}
              /\ written' = written
              /\ pc' = "L112"
         ELSE /\ files' = [files EXCEPT ![ImagePath(image_url)] =
                              Written(files[ImagePath(image_url)], image_url)]
              /\ written' = Append(written, image_url)
              /\ handles' = handles
              /\ pc' = "L109x"
    /\ UNCHANGED <<world, exc, started, finished, used, scraped, idx, img_requests, opened,
                   stdout, analysed, report>>

\* leaving a with block closes the handle it opened
Closed_Leak(hs, p) == hs

Closed(hs, p) == hs \ {p}

\* line 109, leaving the with block: the handle is closed
DlClose ==
    /\ pc = "L109x"
    /\ handles' = Closed(handles, ImagePath(image_url))
    /\ pc' = "L110"
    /\ UNCHANGED <<world, exc, started, finished, used, scraped, idx, img_requests, opened,
                   written, files, stdout, analysed, report>>

\* line 110
DlPrintSaved ==
    /\ pc = "L110"
    /\ stdout' = stdout \o PrintOut(SavedLine(ImagePath(image_url)))
    /\ pc' = "L103"
    /\ UNCHANGED <<world, exc, started, finished, used, scraped, download, analysed, report>>

\* lines 111-112: the handler of every Exception raised in the try block
DlPrintError ==
    /\ pc = "L112"
    /\ stdout' = stdout \o PrintOut(ErrorLine(image_url))
    /\ pc' = "L103"
    /\ UNCHANGED <<world, exc, started, finished, used, scraped, download, analysed, report>>

\* ------------------------------------------------ process_text_with_nltk
\* line 133: the data package pos_tag loads; none is installed by the script
TaggerData == "averaged_perceptron_tagger"

\* lines 130-139: tokenize, filter, tag (pos_tag raises LookupError when its
\* data package is not installed), collect; the tagger's choice is free
ProcessText ==
    /\ pc = "L130"
    /\ LET filtered == FilterTokens(wordpunct_tokenize(text_content))
       IN  IF TaggerData \in bundles
           THEN /\ \E tags \in [1..Len(filtered) -> TAGS] :
                     /\ nouns' \in Orders(WordsTagged(filtered, tags, "NN"))
                     /\ verbs' \in Orders(WordsTagged(filtered, tags, "VB"))
                /\ unique_vocab' \in Orders(Range(filtered))
                /\ used' = used \cup {TaggerData}
                /\ finished' = Append(finished, "Text Analyzer")
                /\ pc' = NextMainLine("L216")
                /\ exc' = exc
           ELSE /\ exc' = "LookupError"
                /\ pc' = "exited"
                /\ UNCHANGED <<used, finished, analysed>>
    /\ UNCHANGED <<world, started, scraped, download, stdout, report>>

\* ------------------------------------------------------- generate_report
\* the seven arguments of generate_report, in order
ReportArgs == <<page_links, image_links, phone_numbers, zip_codes, unique_vocab, nouns, verbs>>

\* lines 155-158: open(report_filename, 'w') creates the file
ReportOpen ==
    /\ pc = "L155"
    /\ report_exists' = TRUE
    /\ report_file' = <<>>
    /\ report_printed' = <<>>
    /\ handles' = handles \cup {ReportName}
    /\ pc' = "L160"
    /\ UNCHANGED <<world, exc, started, finished, used, scraped, idx, img_requests, opened,
                   written, files, stdout, analysed>>

\* lines 160-203: each write to the file and the print beside it
ReportBody ==
    /\ pc = "L160"
    /\ report_file' = report_file \o FileText(ReportArgs)
    /\ report_printed' = report_printed \o PrintedText(ReportArgs)
    /\ stdout' = stdout \o PrintedText(ReportArgs)
    /\ pc' = "L203x"
    /\ UNCHANGED <<world, exc, started, finished, used, scraped, download, analysed,
                   report_exists>>

\* line 203, leaving the with block, and line 205
ReportClose ==
    /\ pc = "L203x"
    /\ handles' = Closed(handles, ReportName)
    /\ stdout' = stdout \o PrintOut(<<"\n", "Report saved to ">> \o ReportName)
    /\ finished' = Append(finished, "Report Writer")
    /\ pc' = NextMainLine("L221")
    /\ UNCHANGED <<world, exc, started, used, scraped, idx, img_requests, opened, written, files,
                   analysed, report>>

\* ---------------------------------------------------------- specification
Next ==
    \/ CheckNltkData
    \/ LoadStopwords
    \/ MakeImageDir
    \/ MainStep
    \/ Fetch
    \/ Extract
    \/ DlFor
    \/ DlGet
    \/ DlOpen
    \/ DlWrite
    \/ DlClose
    \/ DlPrintSaved
    \/ DlPrintError
    \/ ProcessText
    \/ ReportOpen
    \/ ReportBody
    \/ ReportClose
    \/ MainCompleted

Spec == Init /\ [][Next]_vars

\* ----------------------- scrape_website on its own: every set of anchors
\* main has just called scrape_website(URL) for a page with these anchors
InitLinks ==
    /\ bundles = BUNDLES
    /\ dir_exists = TRUE
    /\ hrefs \in {H \in SUBSET Hrefs : Cardinality(H) <= MaxAnchors}
    /\ srcs = {SrcAX}
    /\ nodes = <<NodeFox, NodeZip>>
    /\ pc = "L68"
    /\ exc = "none" /\ started = <<"Fetcher">> /\ finished = <<>> /\ used = {"stopwords"}
    /\ status = 0
    /\ page_links = <<>> /\ image_links = <<>> /\ text_content = <<>>
    /\ phone_numbers = <<>> /\ zip_codes = <<>>
    /\ idx = 0 /\ img_requests = <<>> /\ opened = <<>> /\ written = <<>> /\ handles = {}
    /\ files = [p \in {} |-> EmptyFile]
    /\ stdout = PrintOut(MainCall("L210").out)
    /\ unique_vocab = <<>> /\ nouns = <<>> /\ verbs = <<>>
    /\ report_exists = FALSE /\ report_file = <<>> /\ report_printed = <<>>

NextLinks == Fetch \/ Extract

SpecLinks == InitLinks /\ [][NextLinks]_vars

\* ------------------- process_text_with_nltk on its own: every short text
\* main has just called process_text_with_nltk(text_content) for a page with
\* these text nodes, no anchors and no images
InitText ==
    /\ bundles \in {BUNDLES, BUNDLES \ {TaggerData}}
    /\ dir_exists = TRUE
    /\ hrefs = {}
    /\ srcs = {}
    /\ nodes \in SeqsUpTo(TextNodes, MaxNodes)
    /\ pc = "L130"
    /\ exc = "none" /\ used = {"stopwords"}
    /\ started = SubSeq(COMPONENTS, 1, 4) /\ finished = SubSeq(COMPONENTS, 1, 3)
    /\ status = 200
    /\ page_links = <<>> /\ image_links = <<>> /\ text_content = GetText(nodes)
    /\ phone_numbers \in Orders(FindPhones(text_content, 1))
    /\ zip_codes \in Orders(FindZips(text_content, 1))
    /\ idx = 0 /\ img_requests = <<>> /\ opened = <<>> /\ written = <<>> /\ handles = {}
    /\ files = [p \in {} |-> EmptyFile]
    /\ stdout = PrintOut(MainCall("L210").out) \o PrintOut(MainCall("L213").out)
                    \o PrintOut(MainCall("L216").out)
    /\ unique_vocab = <<>> /\ nouns = <<>> /\ verbs = <<>>
    /\ report_exists = FALSE /\ report_file = <<>> /\ report_printed = <<>>

NextText == ProcessText

SpecText == InitText /\ [][NextText]_vars

\* ------------------------- generate_report on its own: every small input
\* the m-th member a set of the report can hold
Member(m) == <<"member">> \o Str(m)

\* the members that an assignment of members to sections gives section k
MembersOf(alloc, k) == {Member(m) : m \in {n \in DOMAIN alloc : alloc[n] = k}}

\* main has just called generate_report with seven sets that hold at most
\* MaxMembers members between them, in any iteration order
InitReport ==
    /\ bundles = BUNDLES
    /\ dir_exists = TRUE
    /\ hrefs = {} /\ srcs = {} /\ nodes = <<>>
    /\ pc = "L155"
    /\ exc = "none" /\ used = {"stopwords", TaggerData}
    /\ started = COMPONENTS /\ finished = SubSeq(COMPONENTS, 1, 4)
    /\ status = 200
    /\ text_content = <<>>
    /\ \E alloc \in [1..MaxMembers -> 0..Len(SectionLabels)] :
           /\ page_links \in Orders(MembersOf(alloc, 1))
           /\ image_links \in Orders(MembersOf(alloc, 2))
           /\ phone_numbers \in Orders(MembersOf(alloc, 3))
           /\ zip_codes \in Orders(MembersOf(alloc, 4))
           /\ unique_vocab \in Orders(MembersOf(alloc, 5))
           /\ nouns \in Orders(MembersOf(alloc, 6))
           /\ verbs \in Orders(MembersOf(alloc, 7))
    /\ idx = 0 /\ img_requests = <<>> /\ opened = <<>> /\ written = <<>> /\ handles = {}
    /\ files = [p \in {} |-> EmptyFile]
    /\ stdout = <<>>
    /\ report_exists = FALSE /\ report_file = <<>> /\ report_printed = <<>>

NextReport == ReportOpen \/ ReportBody \/ ReportClose

SpecReport == InitReport /\ [][NextReport]_vars

\* ------------------------------------------------- reading the run's output
IsSavedLine(l) == Len(l) > 0 /\ l[1] = "Image saved: "

IsErrorLine(l) == Len(l) > 0 /\ l[1] = "Error downloading image "

\* the line of text t that starts at index i: up to the next line break
LineAt(t, i) ==
    LET stop == CHOOSE j \in i..(Len(t) + 1) :
                    /\ j = Len(t) + 1 \/ t[j] = "\n"
                    /\ \A m \in i..(j - 1) : t[m] # "\n"
    IN  SubSeq(t, i, stop - 1)

\* the per-image status lines of standard output, in order: the lines that
\* start with the text of line 110 or of line 112
StatusLines ==
    LET at(i) == /\ stdout[i] \in {"Image saved: ", "Error downloading image "}
                 /\ (i = 1 \/ stdout[i - 1] = "\n")
        starts == SelectSeq([i \in 1..Len(stdout) |-> i], at)
    IN  [k \in 1..Len(starts) |-> LineAt(stdout, starts[k])]

Started(c) == c \in Range(started)

Finished(c) == c \in Range(finished)

Max(S) == CHOOSE m \in S : \A x \in S : x <= m

\* positions in image_links of the URLs in log whose file is at path p
At(p, log) == {k \in 1..Len(image_links) : ImagePath(image_links[k]) = p /\ image_links[k] \in Range(log)}

\* ------------------------------------------------------------------ claims
\* C1: download_images catches the exception of every failing URL and goes on:
\* in a run that has ended after an image failed, every URL was requested, a
\* file exists for every URL that did not fail, and the text analyzer and the
\* report writer have run.
C1_FailuresSkippedRunGoesOn ==
    LET sl == StatusLines IN
    (pc = "exited" /\ \E k \in 1..Len(sl) : IsErrorLine(sl[k]))
        => /\ img_requests = image_links
           /\ Len(sl) = Len(image_links)
           /\ \A k \in 1..Len(sl) :
                  IsSavedLine(sl[k]) => ImagePath(image_links[k]) \in DOMAIN files
           /\ Started("Text Analyzer")
           /\ Finished("Report Writer") /\ report_exists

\* the part of C1 that is download_images' own: once the loop is over every
\* URL was requested and reported, and each saved one has its file
DownloadLoopCompletes ==
    LET sl == StatusLines IN
    Finished("Image Downloader")
        => /\ img_requests = image_links
           /\ Len(sl) = Len(image_links)
           /\ \A k \in 1..Len(sl) :
                  IsSavedLine(sl[k]) => ImagePath(image_links[k]) \in DOMAIN files
           /\ pc # "exited" => Started("Image Downloader")

\* C2 as stated: after a failed primary fetch, a network error or a status
\* outside 2xx, no image is requested, no image file written, the text
\* analyzer does not run and no report is written.
C2_FailedFetchEndsRun ==
    (exc = "ConnectionError" \/ (status # 0 /\ status \notin 200..299))
        => /\ img_requests = <<>>
           /\ DOMAIN files = {}
           /\ ~Started("Text Analyzer")
           /\ ~report_exists

\* C2 as amended: a primary fetch that raises ends the run there: no image is
\* requested, no image file written, no analysis and no report; a response
\* with a status outside 2xx raises nothing and is parsed like any other.
C2_RaisedFetchEndsRun ==
    /\ exc = "ConnectionError"
           => /\ pc = "exited"
              /\ img_requests = <<>>
              /\ DOMAIN files = {}
              /\ started = <<"Fetcher">>
              /\ ~report_exists
    /\ (status # 0 /\ pc \notin {"L68", "L69"}) => Finished("Extractor")

C2_Witness == exc = "ConnectionError" /\ pc = "exited" /\ srcs # {}

\* C3: the components start in the order Fetcher, Extractor, Image Downloader,
\* Text Analyzer, Report Writer, each at most once, each after the one before
\* it has finished, and never two at a time.
C3_StrictSequence ==
    /\ Len(started) <= Len(COMPONENTS)
    /\ started = SubSeq(COMPONENTS, 1, Len(started))
    /\ Len(finished) <= Len(started)
    /\ finished = SubSeq(started, 1, Len(finished))
    /\ Len(started) - Len(finished) <= 1

C3_Witness == pc = "exited" /\ finished = COMPONENTS /\ Len(image_links) >= 2

\* C4: every NLTK data package the run loads is installed by the time it is
\* loaded, missing ones having been fetched at startup: no load fails.
C4_DataFetchedBeforeUse == exc # "LookupError" /\ used \subseteq bundles

\* C9 as stated: after download_images the file of a basename holds the bytes
\* of the last URL of that basename whose write succeeded; there is one file
\* per basename, and a written URL gets a saved line, not an error line.
C9_FileHoldsLastWritten ==
    LET sl == StatusLines IN
    Finished("Image Downloader")
        => /\ \A p \in DOMAIN files :
                  At(p, written) # {} => files[p] = WholeOf(image_links[Max(At(p, written))])
           /\ Cardinality(DOMAIN files) <= Cardinality({BaseName(u) : u \in Range(image_links)})
           /\ \A k \in 1..Len(image_links) :
                  image_links[k] \in Range(written) => IsSavedLine(sl[k])

\* C9 as amended: the file of a basename is settled by the last URL of that
\* basename whose file was opened: it holds all of that URL's bytes if its
\* write succeeded, and nothing or a part of them if its write failed, whatever
\* an earlier URL had written there; there is one file per basename, and a
\* written URL gets a saved line, not an error line.
C9_FileHoldsLastOpened ==
    LET sl == StatusLines IN
    Finished("Image Downloader")
        => /\ \A p \in DOMAIN files :
                  /\ At(p, opened) # {}
                  /\ LET u == image_links[Max(At(p, opened))]
                     IN  IF u \in Range(written) THEN files[p] = WholeOf(u)
                         ELSE files[p] \in {EmptyFile, PartOf(u)}
           /\ Cardinality(DOMAIN files) <= Cardinality({BaseName(u) : u \in Range(image_links)})
           /\ \A k \in 1..Len(image_links) :
                  image_links[k] \in Range(written) => IsSavedLine(sl[k])

\* two URLs of one basename were both written, and the file holds the later
C9_Witness ==
    /\ Finished("Image Downloader")
    /\ \E p \in DOMAIN files :
           /\ Cardinality(At(p, written)) = 2
           /\ files[p] = WholeOf(image_links[Max(At(p, written))])

\* C10: download_images requests each URL of the set once, in turn, and prints
\* one status line for it, saved or error, before the next request; the saved
\* line is printed with the file whole and its handle closed; never are two
\* file handles open.
C10_OneRequestOneLine ==
    LET sl == StatusLines IN
    /\ Cardinality(handles) <= 1
    /\ Len(img_requests) <= Len(image_links)
    /\ img_requests = SubSeq(image_links, 1, Len(img_requests))
    /\ Len(sl) \in {Len(img_requests) - 1, Len(img_requests)}
    /\ Len(sl) = Len(img_requests) - 1 <=> pc \in {"L108", "L109", "L109x", "L110", "L112"}
    /\ \A k \in 1..Len(sl) :
           /\ sl[k] \in {SavedLine(ImagePath(image_links[k])), ErrorLine(image_links[k])}
           /\ IsSavedLine(sl[k]) <=> image_links[k] \in Range(written)
    /\ Finished("Image Downloader") => Len(sl) = Len(image_links)
    /\ pc = "L110" => handles = {} /\ files[ImagePath(image_url)] = WholeOf(image_url)

C10_Witness ==
    LET sl == StatusLines IN
    /\ Finished("Image Downloader")
    /\ \E j, k \in 1..Len(sl) : IsSavedLine(sl[j]) /\ IsErrorLine(sl[k])

\* ------------------------------------------------- claims on scrape_website
\* an absolute http or https URL: the index of the first symbol of its host,
\* 0 for any other text
HostStart(u) ==
    IF StartsWith(u, <<"http", "s", ":", "/", "/">>) THEN 6
    ELSE IF StartsWith(u, <<"http", ":", "/", "/">>) THEN 5
    ELSE 0

\* the host of an absolute URL: what lies between the scheme and the first
\* "/", "?" or "#"
Host(u) ==
    LET stops == {i \in HostStart(u)..Len(u) : u[i] \in {"/", "?", "#"}}
        stop == IF stops = {} THEN Len(u) + 1 ELSE CHOOSE i \in stops : \A j \in stops : i <= j
    IN  SubSeq(u, HostStart(u), stop - 1)

\* an absolute URL of a page on the target site
OnTargetSite(u) == HostStart(u) > 0 /\ Host(u) = <<"casl.website">>

\* C5: the page-link set scrape_website returns holds exactly the absolute
\* URLs on the target site that the anchors resolve to: every member is one,
\* and every anchor that resolves to one is a member.
C5_PageLinksExactlyOnSite ==
    pc = "L213"
        => /\ \A u \in Range(page_links) : OnTargetSite(u)
           /\ \A h \in hrefs : OnTargetSite(ResolveHref(h)) => ResolveHref(h) \in Range(page_links)

\* what the code does hold to: the members are the resolved hrefs in which
\* URL occurs, each once
PageLinksAreSubstringMatches ==
    pc = "L213"
        => /\ NoDup(page_links)
           /\ Range(page_links) = {u \in {ResolveHref(h) : h \in hrefs} : Contains(u, URL)}

\* --------------------------------------- claims on process_text_with_nltk
\* the same letter in another case
CasePairs == {<<"E", "e">>, <<"F", "f">>, <<"H", "h">>, <<"T", "t">>}

SameLetter(a, b) == a = b \/ <<a, b>> \in CasePairs \/ <<b, a>> \in CasePairs

\* the same word whatever the case of its letters
SameWord(v, w) == Len(v) = Len(w) /\ \A i \in 1..Len(v) : SameLetter(v[i], w[i])

\* C8: the vocabulary is exactly the tokens that are purely alphabetic and
\* are not a stop word in any capitalisation, each in its original case.
C8_VocabularyIsFilteredTokens ==
    pc = "L221"
        => /\ NoDup(unique_vocab)
           /\ Range(unique_vocab) =
                  {t \in Range(wordpunct_tokenize(text_content)) :
                       /\ t # <<>>
                       /\ \A i \in 1..Len(t) : t[i] \in LowerLetters \cup UpperLetters
                       /\ ~\E sw \in STOPWORDS : SameWord(t, sw)}

\* a capitalised stop word is dropped and a capitalised other word kept
C8_Witness ==
    /\ pc = "L221"
    /\ nodes = <<NodeTheCap, NodeFox>>
    /\ unique_vocab = <<NodeFox>>

\* ------------------------------------------------ claims on generate_report
\* the line that follows each listing line of the printed text (every third
\* line from the fourth) is given one blank line more
RECURSIVE BlankAfterListings(_, _)
BlankAfterListings(ls, i) ==
    IF i > Len(ls) THEN <<>>
    ELSE (IF i >= 4 /\ i % 3 = 1 THEN <<ls[i], <<>>>> ELSE <<ls[i]>>) \o BlankAfterListings(ls, i + 1)

\* C6 as stated: the text written to the report file is, line for line, the
\* text printed while the file was open.
C6_FileIsPrintedText ==
    pc \in {"L203x", "L224"} => Lines(report_file) = Lines(report_printed)

\* C6 as amended: the report file holds the lines printed while it was open,
\* in the same order, and one blank line more after each of the seven listing
\* lines.
C6_FileIsPrintedTextPlusBlanks ==
    pc \in {"L203x", "L224"}
        => /\ Lines(report_file) = BlankAfterListings(Lines(report_printed), 1)
           /\ Len(Lines(report_file)) = Len(Lines(report_printed)) + Len(SectionLabels)

C6_Witness == pc = "L224" /\ Len(page_links) = 2 /\ phone_numbers = <<>> /\ Len(verbs) = 1

\* C7: in the report file each of the seven sections is one header line giving
\* the number of members of its set, followed at once by one line listing every
\* member once, joined by ", " (an empty line for an empty set), followed by a
\* blank line.
C7_SectionsCountAndList ==
    pc \in {"L203x", "L224"}
        => LET ls == Lines(report_file)
           IN  \A k \in 1..Len(SectionLabels) :
                   LET set == Range(ReportArgs[k])
                       at == {i \in 1..Len(ls) : Len(ls[i]) > 0 /\ ls[i][1] = SectionLabels[k]}
                   IN  /\ Cardinality(at) = 1
                       /\ \A i \in at :
                              /\ ls[i] = <<SectionLabels[k]>> \o Str(Cardinality(set)) \o <<"):">>
                              /\ i + 2 <= Len(ls)
                              /\ \E o \in Orders(set) : ls[i + 1] = Join(o, <<", ">>)
                              /\ ls[i + 2] = <<>>

\* a section of no member beside one of two
C7_Witness ==
    /\ pc = "L224"
    /\ phone_numbers = <<>>
    /\ Len(nouns) = 2
    /\ \E i \in 1..Len(Lines(report_file)) :
           /\ Lines(report_file)[i] = <<"Phone Numbers Found (", "0", "):">>
           /\ Lines(report_file)[i + 1] = <<>>

====
